---- MODULE Spec2Model ----
(***************************************************************************)
(* SpaceMusic: gesture-driven selection and manipulation of orbs.          *)
(*                                                                         *)
(* The model follows the single-player pipeline of the current scene:      *)
(*   useHandTracking.processLandmarks  (detector tick)                     *)
(*   App  (grabbedOrbs, orbs, cameraMode - React state and derived props)  *)
(*   SpaceScene lock useFrame          (candidate / lock refs)             *)
(*   SoundOrb useFrame                 (grab, release, orbital motion)     *)
(*                                                                         *)
(* Units.  Screen distances are in 1/1000 of the normalized screen         *)
(* (0.3 = 300), thresholds in 1/1000000 (0.3 = 300000), planet sizes in    *)
(* 1/100, orbit radii and positions in 1/10 world units (2.0 = 20), the    *)
(* cursor depth z in quarters (0.5 = 2), time in milliseconds.             *)
(*                                                                         *)
(* React commits the state written by a callback before the next animation *)
(* frame; inside a frame every useFrame callback reads the props of the    *)
(* last commit.  grabbedOrbs is the only state written and read inside one *)
(* frame, so it is the only one with a separate rendered copy.             *)
(***************************************************************************)
EXTENDS Integers, Sequences, FiniteSets, TLC

----------------------------------------------------------------------------
(* Bounds of the model *)

MaxNow == 780

(* Largest magnitude of an orbit angle that is still updated, 1/100 rad *)
MaxAngle == 700

(* Most timers of released orbs that are pending at one time *)
MaxTimers == 2

----------------------------------------------------------------------------
(* Program constants *)

LOCK_TIME == 250
UNLOCK_THRESHOLD == 300000
MIN_ORBIT_RADIUS == 20
MAX_ORBIT_RADIUS == 120

Null == "null"

Orbs == {"mercury", "jupiter"}
OrbOrder == <<"mercury", "jupiter">>

PlayerIds == {"player_0", "player_1"}

planetSize(o) == IF o = "mercury" THEN 30 ELSE 90
initialOrbitRadius(o) == IF o = "mercury" THEN 25 ELSE 70

(* Milliseconds between two animation frames. *)
FrameSteps == {120, 130}

(* Where an orb projects relative to the cursor in one frame:              *)
(* sd = cursor-to-orb screen distance, cd = distance from the camera,      *)
(* inDepth = projected.z lies inside [-1, 1].                              *)
Placements ==
  { [sd |-> 100, cd |-> 20, inDepth |-> TRUE],
    [sd |-> 300, cd |-> 20, inDepth |-> TRUE],
    [sd |-> 400, cd |-> 10, inDepth |-> TRUE],
    [sd |-> 600, cd |-> 40, inDepth |-> TRUE],
    [sd |-> 100, cd |-> 20, inDepth |-> FALSE] }

(* The placements in front of the camera *)
VisiblePlacements == { p \in Placements : p.inDepth }

FarPlacement == [sd |-> 600, cd |-> 40, inDepth |-> TRUE]

(* Distance from the origin of the point where the cursor ray meets the    *)
(* orbital plane (0 when the ray misses the plane: the target vector stays *)
(* at the origin).                                                         *)
RayDists == {0, 15, 70, 120, 400}

(* Depth estimates of one detector tick, in quarters. *)
DepthInputs == {0, 2, 4}

(* Orbs of the app store the legacy orb scene is run with *)
StoreOrbs == {"fx", "melody"}
StoreOrbOrder == <<"fx", "melody">>

(* Galaxies of the app store *)
Galaxies == {"milky_way", "andromeda", "orion_nebula", "crab_nebula"}

ZoomLevels == {"solar_system", "galaxy_view", "universe_view"}

(* Angles an orb's orbitAngleRef is taken at, in 1/100 rad: the            *)
(* orbitOffset of mercury (0) and of earth (pi), and 3.1 rad.              *)
StartAngles == {0, 310, 314}

Min(a, b) == IF a < b THEN a ELSE b
Max(a, b) == IF a > b THEN a ELSE b

(* Integer part of a / b for b > 0, rounding toward zero. *)
Trunc(a, b) == IF a >= 0 THEN a \div b ELSE -((-a) \div b)

(* Integer part of a / b for b > 0, rounding away from zero. *)
RoundOut(a, b) == IF a >= 0 THEN (a + b - 1) \div b ELSE -(((-a) + b - 1) \div b)

----------------------------------------------------------------------------
VARIABLES
  now,               \* performance.now() of the current frame
  pc,                \* 0 between frames, else index of the next callback
  lockFirst,         \* the lock useFrame is subscribed before the orbs'
  radiusMode,        \* "raycast" | "depth": grabbed-target code of SoundOrb
  landmarks,         \* result of the last detector tick (sequence of hands)
  isTracking, isPinching, isFist, handZ,   \* useHandTracking state
  orbActive,         \* orbs[o].active
  orbPosition,       \* orbs[o].position (stored position, radial)
  grabbedOrbs,       \* App state: sequence of <<playerId, orbId>>
  renderedGrabbedOrbs, \* grabbedOrbs as of the last commit
  view,              \* placement of every orb in the current frame
  lockedOrbRef, lockCandidateRef, lockStartTimeRef, closestOrbRef,
  targetOrbitRadius, currentOrbitRadius, currentPosition,
  frameDepth,        \* depth estimate of the frame of the last detector tick
  lastFramePinching, \* isPinching as the previous animation frame saw it
  isMultiplayer,     \* App state: players come from the backend
  hand2,             \* a second tracked hand (sequence of at most one hand)
  closestOrbsRef,    \* per-hand hover targets: sequence of <<key, orbId>>
  orbitAngleRef, targetOrbitAngleRef, \* SoundOrb angle refs
  angleLerpSpeed,    \* angleLerpSpeed of the last angle update
  selectedStars,     \* ConstellationSystem state: connected star ids
  draggingStarRef, lastPinchRef, pinchStartTimeRef,
  completeTimers,    \* pending setTimeout callbacks: <<type, name>>
  storeOrbState,     \* app store: orbs[].state of the legacy orb scene
  storeGrabbedOrbId, \* app store: grabbedOrbId
  readyTimers, idleTimers, \* pending timers of released orbs, oldest first
  currentGalaxy, zoomLevel, \* app store: galaxy navigation
  isTransitioning, transitionTarget, transitionProgress

vars == <<now, pc, lockFirst, radiusMode, landmarks, isTracking, isPinching, isFist,
          handZ, orbActive, orbPosition, grabbedOrbs, renderedGrabbedOrbs,
          view, lockedOrbRef, lockCandidateRef, lockStartTimeRef,
          closestOrbRef, targetOrbitRadius, currentOrbitRadius,
          currentPosition, frameDepth, lastFramePinching, isMultiplayer,
          hand2, closestOrbsRef, orbitAngleRef, targetOrbitAngleRef,
          angleLerpSpeed, selectedStars, draggingStarRef, lastPinchRef,
          pinchStartTimeRef, completeTimers, storeOrbState,
          storeGrabbedOrbId, readyTimers, idleTimers, currentGalaxy,
          zoomLevel, isTransitioning, transitionTarget, transitionProgress>>

handVars == <<landmarks, isTracking, isPinching, isFist, handZ, frameDepth>>
lockVars == <<lockedOrbRef, lockCandidateRef, lockStartTimeRef, closestOrbRef>>
motionVars == <<targetOrbitRadius, currentOrbitRadius, currentPosition>>
angleVars == <<orbitAngleRef, targetOrbitAngleRef, angleLerpSpeed>>
starVars == <<selectedStars, draggingStarRef, lastPinchRef, pinchStartTimeRef,
              completeTimers>>
playerVars == <<isMultiplayer, hand2>>
legacyVars == <<storeOrbState, storeGrabbedOrbId, readyTimers, idleTimers>>
galaxyVars == <<currentGalaxy, zoomLevel, isTransitioning, transitionTarget,
                transitionProgress>>
storeVars == <<legacyVars, galaxyVars>>


----------------------------------------------------------------------------
(* useHandTracking.js: gesture classifier.  Landmark coordinates are in    *)
(* 1/100 of the normalized image; distances are compared squared.          *)

PINCH_THRESHOLD == 8

TipOpts == {"curled", "extended", "hooked", "raised"}
ThumbOpts == {"onIndex", "edge", "apart"}

(* One detector result: where the thumb tip and the four finger tips are. *)
HandFrames ==
  [thumb : ThumbOpts, index : TipOpts, middle : TipOpts,
   ring : TipOpts, pinky : TipOpts]

Pt(x, y, z) == [x |-> x, y |-> y, z |-> z]

pipOf(finger) ==
  CASE finger = "index"  -> Pt(46, 42, 0)
    [] finger = "middle" -> Pt(50, 40, 0)
    [] finger = "ring"   -> Pt(54, 42, 0)
    [] finger = "pinky"  -> Pt(58, 45, 0)

tipOf(finger, opt) ==
  LET p == pipOf(finger) IN
  CASE opt = "curled"   -> Pt(p.x + 1, p.y + 6, 0)
    [] opt = "extended" -> Pt(p.x, p.y - 22, 0)
    [] opt = "hooked"   -> Pt(p.x, p.y + 2, 0 - 20)
    [] opt = "raised"   -> Pt(p.x, p.y - 3, 0)

(* hand[i] for the landmark indices the classifier reads *)
landmark(hand, i) ==
  CASE i = 4  -> (LET t == tipOf("index", hand.index) IN
                  CASE hand.thumb = "onIndex" -> Pt(t.x + 2, t.y + 1, t.z + 1)
                    [] hand.thumb = "edge"    -> Pt(t.x + 8, t.y, t.z)
                    [] hand.thumb = "apart"   -> Pt(30, 45, 0))
    [] i = 6  -> pipOf("index")
    [] i = 8  -> tipOf("index", hand.index)
    [] i = 9  -> Pt(50, 50, 0)
    [] i = 10 -> pipOf("middle")
    [] i = 12 -> tipOf("middle", hand.middle)
    [] i = 14 -> pipOf("ring")
    [] i = 16 -> tipOf("ring", hand.ring)
    [] i = 18 -> pipOf("pinky")
    [] i = 20 -> tipOf("pinky", hand.pinky)

(* distance3D(p1, p2) squared *)
distance3DSq(p1, p2) ==
  (p1.x - p2.x) * (p1.x - p2.x) + (p1.y - p2.y) * (p1.y - p2.y)
    + (p1.z - p2.z) * (p1.z - p2.z)

BoolCount(s) == Cardinality({ i \in 1..Len(s) : s[i] })

(* Variant: three fingers that are each curled and near the palm *)
checkFistPerFinger(hand) ==
  LET palmCenter == landmark(hand, 9)
      indexIn == /\ landmark(hand, 8).y > landmark(hand, 6).y - 2
                 /\ distance3DSq(landmark(hand, 8), palmCenter) < 15 * 15
      middleIn == /\ landmark(hand, 12).y > landmark(hand, 10).y - 2
                  /\ distance3DSq(landmark(hand, 12), palmCenter) < 12 * 12
      ringIn == /\ landmark(hand, 16).y > landmark(hand, 14).y - 2
                /\ distance3DSq(landmark(hand, 16), palmCenter) < 15 * 15
      pinkyIn == /\ landmark(hand, 20).y > landmark(hand, 18).y - 2
                 /\ distance3DSq(landmark(hand, 20), palmCenter) < 18 * 18
  IN BoolCount(<<indexIn, middleIn, ringIn, pinkyIn>>) >= 3

(* checkFist(hand) *)
checkFist(hand) ==
  LET indexTip == landmark(hand, 8)
      middleTip == landmark(hand, 12)
      ringTip == landmark(hand, 16)
      pinkyTip == landmark(hand, 20)
      palmCenter == landmark(hand, 9)
      indexCurled == indexTip.y > landmark(hand, 6).y - 2
      middleCurled == middleTip.y > landmark(hand, 10).y - 2
      ringCurled == ringTip.y > landmark(hand, 14).y - 2
      pinkyCurled == pinkyTip.y > landmark(hand, 18).y - 2
      tipsCloseToPalm ==
        /\ distance3DSq(indexTip, palmCenter) < 15 * 15
        /\ distance3DSq(middleTip, palmCenter) < 12 * 12
        /\ distance3DSq(ringTip, palmCenter) < 15 * 15
        /\ distance3DSq(pinkyTip, palmCenter) < 18 * 18
      tipsCompact == distance3DSq(indexTip, pinkyTip) < 15 * 15
      curledCount ==
        BoolCount(<<indexCurled, middleCurled, ringCurled, pinkyCurled>>)
  IN curledCount >= 3 /\ (tipsCloseToPalm \/ tipsCompact)

(* pinchDistance < PINCH_THRESHOLD *)
pinchClose(hand) ==
  distance3DSq(landmark(hand, 4), landmark(hand, 8))
    < PINCH_THRESHOLD * PINCH_THRESHOLD

(* Variant: the pinch test without the fist check *)
isPinchOfAnyHand(hand) == pinchClose(hand)

(* isPinch of processLandmarks *)
isPinchOf(hand) == ~checkFist(hand) /\ pinchClose(hand)

(* lerp(lastPosition.z, finalDepth, LERP_FACTOR_DEPTH) on the quarter grid: *)
(* the step is rounded away from zero, so the value reaches its target.    *)
lerpDepth(z, finalDepth) == z + RoundOut((finalDepth - z) * 2, 10)

(* processLandmarks(landmarks): the detector result is a sequence of       *)
(* hands, empty when no hand is seen.  finalDepth is the depth estimate of *)
(* this frame (calculateHandDepth, blended with the pinch adjustment),     *)
(* which lies in [0, 1].                                                   *)
DetectorTick(result, finalDepth) ==
  /\ pc = 0
  /\ ~isMultiplayer
  /\ landmarks' = result
  /\ IF Len(result) = 0
     THEN /\ isTracking' = FALSE
          /\ isPinching' = FALSE
          /\ isFist' = FALSE
          /\ handZ' = handZ
          /\ frameDepth' = frameDepth
     ELSE /\ isTracking' = TRUE
          /\ isFist' = checkFist(result[1])
          /\ isPinching' = isPinchOf(result[1])
          /\ handZ' = lerpDepth(handZ, finalDepth)
          /\ frameDepth' = finalDepth
  /\ UNCHANGED <<now, pc, lockFirst, radiusMode, orbActive, orbPosition,
                 grabbedOrbs, renderedGrabbedOrbs, view, lastFramePinching,
                 closestOrbsRef>>
  /\ UNCHANGED lockVars
  /\ UNCHANGED motionVars
  /\ UNCHANGED angleVars
  /\ UNCHANGED starVars
  /\ UNCHANGED storeVars
  /\ UNCHANGED playerVars

(* handPosition prop of App: the primary hand's position, or the default   *)
(* { x: 0.5, y: 0.5, z: 0.5 } when there is no tracked player.             *)
handPositionZ == IF isTracking THEN handZ ELSE 2

----------------------------------------------------------------------------
(* App.jsx *)

(* Object.values(grabbedOrbs) *)
ObjectValues(g) == { g[i][2] : i \in 1..Len(g) }

ObjectKeys(g) == { g[i][1] : i \in 1..Len(g) }

(* grabbedOrbs[playerId], Null when the key is absent *)
Lookup(g, playerId) ==
  IF playerId \in ObjectKeys(g)
  THEN (CHOOSE e \in { g[i] : i \in 1..Len(g) } : e[1] = playerId)[2]
  ELSE Null

(* Variant: the grab is not passed on to the scene *)
grabbedOrbIdOfNone(g) == Null

(* grabbedOrbId: the first entry of grabbedOrbs *)
grabbedOrbIdOf(g) == IF Len(g) > 0 THEN g[1][2] ELSE Null

(* Variant: a grab recorded under every player key *)
setGrabbedOrbIdAllPlayers(prev, orbId, playerId) ==
  IF orbId = Null
  THEN SelectSeq(prev, LAMBDA e : e[1] # playerId)
  ELSE <<<<"player_0", orbId>>, <<"player_1", orbId>>>>

(* setGrabbedOrbId(orbId, playerId) applied to the previous map *)
setGrabbedOrbId(prev, orbId, playerId) ==
  IF orbId = Null
  THEN SelectSeq(prev, LAMBDA e : e[1] # playerId)
  ELSE IF playerId \in ObjectKeys(prev)
       THEN [i \in 1..Len(prev) |->
               IF prev[i][1] = playerId THEN <<playerId, orbId>> ELSE prev[i]]
       ELSE Append(prev, <<playerId, orbId>>)

(* Variant: a fist does not change the mode *)
getCameraModeNoFist(g, tracking, fist) ==
  IF ~tracking THEN "idle"
  ELSE IF Lookup(g, "player_0") # Null THEN "dragging"
  ELSE "idle"

(* getCameraMode(playerId) for the single local player *)
getCameraMode(g, tracking, fist) ==
  IF ~tracking THEN "idle"
  ELSE IF Lookup(g, "player_0") # Null THEN "dragging"
  ELSE IF fist THEN "camera"
  ELSE "idle"

cameraMode == getCameraMode(renderedGrabbedOrbs, isTracking, isFist)
grabbedOrbId == grabbedOrbIdOf(renderedGrabbedOrbs)

(* Variant: the release keeps the stored position *)
updateOrbPositionStale(orbId, newPosition) == orbPosition

(* updateOrbPosition(orbId, newPosition) *)
updateOrbPosition(orbId, newPosition) ==
  [orbPosition EXCEPT ![orbId] = newPosition]

----------------------------------------------------------------------------
(* SpaceScene: candidate finder *)

(* Math.max(0.5, 20 / distFromCamera), in 1/1000 *)
distanceFactor(cd) == Max(500, 20000 \div cd)

(* Math.min(0.35, baseThreshold + sizeBonus) * distanceFactor, in 1/1000000 *)
selectionThreshold(size, cd) == Min(350, 200 + size) * distanceFactor(cd)

(* Variant: the screen distance alone *)
scoreScreenOnly(p) == p.sd * 1000

(* screenDist + distFromCamera / 50, in 1/1000000 *)
score(p) == p.sd * 1000 + p.cd * 20000

(* Variant: no test of projected.z *)
eligibleAnyDepth(o, v, excludeOrbIds) ==
  /\ orbActive[o]
  /\ o \notin excludeOrbIds
  /\ v[o].sd * 1000 < selectionThreshold(planetSize(o), v[o].cd)

(* The tests an orb passes before its score is looked at *)
eligible(o, v, excludeOrbIds) ==
  /\ orbActive[o]
  /\ o \notin excludeOrbIds
  /\ v[o].inDepth
  /\ v[o].sd * 1000 < selectionThreshold(planetSize(o), v[o].cd)

(* orbs.forEach with "score < minScore": the first orb of the list with    *)
(* the least score.                                                        *)
RECURSIVE closestFrom(_, _, _, _, _)
closestFrom(i, v, excludeOrbIds, closest, minScore) ==
  IF i > Len(OrbOrder) THEN closest
  ELSE LET o == OrbOrder[i] IN
       IF eligible(o, v, excludeOrbIds) /\ (closest = Null \/ score(v[o]) < minScore)
       THEN closestFrom(i + 1, v, excludeOrbIds, o, score(v[o]))
       ELSE closestFrom(i + 1, v, excludeOrbIds, closest, minScore)

getClosestOrbForHand(v, excludeOrbIds) ==
  closestFrom(1, v, excludeOrbIds, Null, 0)

----------------------------------------------------------------------------
(* Frame scheduling *)

CallbackOrder ==
  IF lockFirst THEN <<"lock">> \o OrbOrder ELSE OrbOrder \o <<"lock">>

NextPc == IF pc = Len(CallbackOrder) THEN 0 ELSE pc + 1

(* After the last callback of a frame React commits the state the frame    *)
(* wrote, and the placements of the frame are gone.                        *)
EndOfFrame ==
  /\ pc' = NextPc
  /\ view' = IF NextPc = 0 THEN [o \in Orbs |-> FarPlacement] ELSE view
  /\ renderedGrabbedOrbs' =
       IF NextPc = 0 THEN grabbedOrbs' ELSE renderedGrabbedOrbs
  /\ lastFramePinching' =
       IF NextPc = 0 THEN isPinching ELSE lastFramePinching

Init ==
  /\ now = 0
  /\ pc = 0
  /\ lockFirst \in BOOLEAN
  /\ radiusMode \in {"raycast", "depth"}
  /\ landmarks = <<>>
  /\ isTracking = FALSE
  /\ isPinching = FALSE
  /\ isFist = FALSE
  /\ handZ = 2
  /\ orbActive = [o \in Orbs |-> TRUE]
  /\ orbPosition = [o \in Orbs |-> initialOrbitRadius(o)]
  /\ grabbedOrbs = <<>>
  /\ renderedGrabbedOrbs = <<>>
  /\ view = [o \in Orbs |-> FarPlacement]
  /\ lockedOrbRef = Null
  /\ lockCandidateRef = Null
  /\ lockStartTimeRef = 0
  /\ closestOrbRef = Null
  /\ targetOrbitRadius = [o \in Orbs |-> initialOrbitRadius(o)]
  /\ currentOrbitRadius = [o \in Orbs |-> initialOrbitRadius(o)]
  /\ currentPosition = [o \in Orbs |-> initialOrbitRadius(o)]
  /\ frameDepth = 2
  /\ lastFramePinching = FALSE
  /\ isMultiplayer \in BOOLEAN
  /\ hand2 = <<>>
  /\ closestOrbsRef = <<>>
  /\ orbitAngleRef \in StartAngles
  /\ targetOrbitAngleRef = orbitAngleRef
  /\ angleLerpSpeed = 15
  /\ selectedStars = <<>>
  /\ draggingStarRef = Null
  /\ lastPinchRef = FALSE
  /\ pinchStartTimeRef = 0
  /\ completeTimers = <<>>
  /\ storeOrbState = [o \in StoreOrbs |-> "idle"]
  /\ storeGrabbedOrbId = Null
  /\ readyTimers = <<>>
  /\ idleTimers = <<>>
  /\ currentGalaxy = "milky_way"
  /\ zoomLevel = "solar_system"
  /\ isTransitioning = FALSE
  /\ transitionTarget = Null
  /\ transitionProgress = 0


(* The next animation frame begins: the clock advances and every orb has   *)
(* some placement on screen.                                               *)
StartFrame(step, v) ==
  /\ pc = 0
  /\ now + step <= MaxNow
  /\ now' = now + step
  /\ view' = v
  /\ pc' = 1
  /\ UNCHANGED <<lockFirst, radiusMode, orbActive, orbPosition, grabbedOrbs,
                 renderedGrabbedOrbs, lastFramePinching, closestOrbsRef>>
  /\ UNCHANGED handVars
  /\ UNCHANGED lockVars
  /\ UNCHANGED motionVars
  /\ UNCHANGED angleVars
  /\ UNCHANGED starVars
  /\ UNCHANGED storeVars
  /\ UNCHANGED playerVars

(* onDoubleClick of a planet: toggleOrbActive(orb.id) *)
ToggleOrbActive(o) ==
  /\ pc = 0
  /\ orbActive' = [orbActive EXCEPT ![o] = ~orbActive[o]]
  /\ UNCHANGED <<now, pc, lockFirst, radiusMode, orbPosition, grabbedOrbs,
                 renderedGrabbedOrbs, view, lastFramePinching, closestOrbsRef>>
  /\ UNCHANGED handVars
  /\ UNCHANGED lockVars
  /\ UNCHANGED motionVars
  /\ UNCHANGED angleVars
  /\ UNCHANGED starVars
  /\ UNCHANGED storeVars
  /\ UNCHANGED playerVars

----------------------------------------------------------------------------
(* SpaceScene: lock useFrame *)

LockResult(locked, candidate, start, closest) ==
  [locked |-> locked, candidate |-> candidate, start |-> start,
   closest |-> closest]

(* Variant: the lock is dropped at the release threshold itself *)
lockedBranchAtThreshold(currentClosest) ==
  LET dist == view[lockedOrbRef].sd * 1000
      lost == ~orbActive[lockedOrbRef] \/ dist >= UNLOCK_THRESHOLD
  IN IF lost
     THEN LockResult(Null, currentClosest, now, Null)
     ELSE LockResult(lockedOrbRef, lockCandidateRef, lockStartTimeRef,
                     lockedOrbRef)

(* The LOCK LOGIC branch taken with a lock held. *)
lockedBranch(currentClosest) ==
  LET dist == view[lockedOrbRef].sd * 1000
      lost == ~orbActive[lockedOrbRef] \/ dist > UNLOCK_THRESHOLD
  IN IF lost
     THEN LockResult(Null, currentClosest, now, Null)
     ELSE LockResult(lockedOrbRef, lockCandidateRef, lockStartTimeRef,
                     lockedOrbRef)

(* Variant: the lock needs a hover longer than LOCK_TIME *)
acquireBranchStrict(currentClosest) ==
  IF currentClosest # Null
  THEN IF currentClosest = lockCandidateRef
       THEN IF now - lockStartTimeRef > LOCK_TIME
            THEN LockResult(currentClosest, Null, lockStartTimeRef,
                            currentClosest)
            ELSE LockResult(Null, lockCandidateRef, lockStartTimeRef,
                            lockCandidateRef)
       ELSE LockResult(Null, currentClosest, now, currentClosest)
  ELSE LockResult(Null, Null, lockStartTimeRef, Null)

(* The LOCK LOGIC branch taken with no lock held. *)
acquireBranch(currentClosest) ==
  IF currentClosest # Null
  THEN IF currentClosest = lockCandidateRef
       THEN IF now - lockStartTimeRef >= LOCK_TIME
            THEN LockResult(currentClosest, Null, lockStartTimeRef,
                            currentClosest)
            ELSE LockResult(Null, lockCandidateRef, lockStartTimeRef,
                            lockCandidateRef)
       ELSE LockResult(Null, currentClosest, now, currentClosest)
  ELSE LockResult(Null, Null, lockStartTimeRef, Null)

(* Variant: a frame without tracking keeps the candidate and its timer *)
lockUpdateKeepCandidate ==
  IF grabbedOrbId # Null
  THEN LockResult(grabbedOrbId, Null, lockStartTimeRef, grabbedOrbId)
  ELSE IF ~isTracking \/ cameraMode = "camera"
  THEN LockResult(Null, lockCandidateRef, lockStartTimeRef, Null)
  ELSE LET currentClosest ==
             getClosestOrbForHand(view, ObjectValues(renderedGrabbedOrbs))
       IN IF lockedOrbRef # Null
          THEN lockedBranch(currentClosest)
          ELSE acquireBranch(currentClosest)

(* The lock useFrame: the new values of the four refs *)
lockUpdate ==
  IF grabbedOrbId # Null
  THEN LockResult(grabbedOrbId, Null, lockStartTimeRef, grabbedOrbId)
  ELSE IF ~isTracking \/ cameraMode = "camera"
  THEN LockResult(Null, Null, lockStartTimeRef, Null)
  ELSE LET currentClosest ==
             getClosestOrbForHand(view, ObjectValues(renderedGrabbedOrbs))
       IN IF lockedOrbRef # Null
          THEN lockedBranch(currentClosest)
          ELSE acquireBranch(currentClosest)

(* Variant: a lock update that never clears a candidate *)
LockFrameKeepCandidate ==
  /\ pc > 0
  /\ CallbackOrder[pc] = "lock"
  /\ lockedOrbRef' = lockUpdate.locked
  /\ lockCandidateRef' =
       IF lockUpdate.candidate = Null THEN lockCandidateRef
       ELSE lockUpdate.candidate
  /\ lockStartTimeRef' = lockUpdate.start
  /\ closestOrbRef' = lockUpdate.closest
  /\ closestOrbsRef' = <<>>
  /\ UNCHANGED <<now, lockFirst, radiusMode, orbActive, orbPosition,
                 grabbedOrbs>>
  /\ EndOfFrame
  /\ UNCHANGED handVars
  /\ UNCHANGED motionVars
  /\ UNCHANGED angleVars
  /\ UNCHANGED starVars
  /\ UNCHANGED storeVars
  /\ UNCHANGED playerVars

(* The lock useFrame of SpaceScene *)
LockFrame ==
  /\ pc > 0
  /\ CallbackOrder[pc] = "lock"
  /\ lockedOrbRef' = lockUpdate.locked
  /\ lockCandidateRef' = lockUpdate.candidate
  /\ lockStartTimeRef' = lockUpdate.start
  /\ closestOrbRef' = lockUpdate.closest
  /\ closestOrbsRef' = <<>>
  /\ UNCHANGED <<now, lockFirst, radiusMode, orbActive, orbPosition,
                 grabbedOrbs>>
  /\ EndOfFrame
  /\ UNCHANGED handVars
  /\ UNCHANGED motionVars
  /\ UNCHANGED angleVars
  /\ UNCHANGED starVars
  /\ UNCHANGED storeVars
  /\ UNCHANGED playerVars

----------------------------------------------------------------------------
(* SoundOrb: useFrame *)

isGrabbed(o) == grabbedOrbId = o
isLocked(o) == lockedOrbRef = o

(* Variant: a candidate may be grabbed as well *)
canGrabCandidate(o) == isLocked(o) \/ lockCandidateRef = o \/ isGrabbed(o)

canGrab(o) == isLocked(o) \/ isGrabbed(o)

(* Variant: the grab test outside the "orb.active" guard *)
grabsInactive(o) ==
  /\ cameraMode # "camera"
  /\ isTracking
  /\ isPinching /\ canGrab(o) /\ ~isGrabbed(o)

(* "if (isPinching && canGrab && !isGrabbed)" inside the tracking guard *)
grabs(o) ==
  /\ cameraMode # "camera"
  /\ isTracking /\ orbActive[o]
  /\ isPinching /\ canGrab(o) /\ ~isGrabbed(o)

(* "if (!isPinching && isGrabbed)" inside the tracking guard *)
releases(o) ==
  /\ cameraMode # "camera"
  /\ isTracking /\ orbActive[o]
  /\ ~isPinching /\ isGrabbed(o)

(* Variant: the ray distance without the clamp *)
unclampedRadius(targetDist) == targetDist

(* Math.max(MIN_ORBIT_RADIUS, Math.min(MAX_ORBIT_RADIUS, targetDist)) *)
clampedRadius(targetDist) ==
  Max(MIN_ORBIT_RADIUS, Min(MAX_ORBIT_RADIUS, targetDist))

(* Variant: the depth scaled by MAX_ORBIT_RADIUS instead of the range *)
depthRadiusFullScale(z) ==
  MIN_ORBIT_RADIUS + (z * MAX_ORBIT_RADIUS) \div 4

(* MIN_ORBIT_RADIUS + handPosition.z * (MAX_ORBIT_RADIUS - MIN_ORBIT_RADIUS) *)
depthRadius(z) ==
  MIN_ORBIT_RADIUS + (z * (MAX_ORBIT_RADIUS - MIN_ORBIT_RADIUS)) \div 4

(* Target radius of a grabbed orb *)
grabbedTargetRadius(targetDist) ==
  IF radiusMode = "raycast"
  THEN clampedRadius(targetDist)
  ELSE depthRadius(handPositionZ)

(* a + (b - a) * pct / 100 on the 1/10 grid *)
lerpTenths(a, b, pct) == a + Trunc((b - a) * pct, 100)

newTargetRadius(o, targetDist) ==
  IF cameraMode # "camera" /\ isGrabbed(o)
  THEN grabbedTargetRadius(targetDist)
  ELSE IF grabs(o) /\ radiusMode = "depth"
  THEN currentOrbitRadius[o]
  ELSE targetOrbitRadius[o]

(* Variant: the radius is carried past its target *)
newOrbitRadiusOvershoot(o, target) ==
  lerpTenths(currentOrbitRadius[o], target, IF isGrabbed(o) THEN 250 ELSE 8)

(* updatePlanetPosition: radius and position move toward their targets *)
newOrbitRadius(o, target) ==
  lerpTenths(currentOrbitRadius[o], target, IF isGrabbed(o) THEN 12 ELSE 8)

newPosition(o, radius) ==
  lerpTenths(currentPosition[o], radius, IF isGrabbed(o) THEN 25 ELSE 10)

SoundOrbFrame(o, targetDist) ==
  /\ pc > 0
  /\ CallbackOrder[pc] = o
  /\ grabbedOrbs' =
       IF grabs(o) THEN setGrabbedOrbId(grabbedOrbs, o, "player_0")
       ELSE IF releases(o) THEN setGrabbedOrbId(grabbedOrbs, Null, "player_0")
       ELSE grabbedOrbs
  /\ orbPosition' =
       IF releases(o) THEN updateOrbPosition(o, currentPosition[o])
       ELSE orbPosition
  /\ LET target == newTargetRadius(o, targetDist)
         radius == newOrbitRadius(o, target)
     IN /\ targetOrbitRadius' = [targetOrbitRadius EXCEPT ![o] = target]
        /\ currentOrbitRadius' = [currentOrbitRadius EXCEPT ![o] = radius]
        /\ currentPosition' =
             [currentPosition EXCEPT ![o] = newPosition(o, radius)]
  /\ UNCHANGED <<now, lockFirst, radiusMode, orbActive, closestOrbsRef>>
  /\ EndOfFrame
  /\ UNCHANGED handVars
  /\ UNCHANGED lockVars
  /\ UNCHANGED angleVars
  /\ UNCHANGED starVars
  /\ UNCHANGED storeVars
  /\ UNCHANGED playerVars

----------------------------------------------------------------------------
(* Hands the scene is driven with: open, pinch, and fist with the thumb on *)
(* the index finger.                                                       *)
SceneHands ==
  { [thumb |-> "apart", index |-> "extended", middle |-> "extended",
     ring |-> "extended", pinky |-> "extended"],
    [thumb |-> "onIndex", index |-> "extended", middle |-> "extended",
     ring |-> "extended", pinky |-> "extended"],
    [thumb |-> "onIndex", index |-> "curled", middle |-> "curled",
     ring |-> "curled", pinky |-> "curled"] }

(* Detector results: no hand, or one of the scene hands *)
SceneResults == {<<>>} \cup { <<h>> : h \in SceneHands }

(* One step of the program with its inputs drawn from the given sets *)
Step(results, depths, steps, views, rays) ==
  \/ \E result \in results, finalDepth \in depths :
       DetectorTick(result, finalDepth)
  \/ \E o \in Orbs : ToggleOrbActive(o)
  \/ \E step \in steps, v \in views : StartFrame(step, v)
  \/ LockFrame
  \/ \E o \in Orbs, targetDist \in rays : SoundOrbFrame(o, targetDist)

(* Selection, lock and grab: every placement of the two orbs, a steady     *)
(* cursor depth and a cursor ray that meets the orbital plane far out.     *)
Next ==
  Step(SceneResults, {2}, FrameSteps, [Orbs -> VisiblePlacements], {120})

(* The current scene: the raycast SoundOrb *)
InitScene ==
  Init /\ radiusMode = "raycast" /\ ~isMultiplayer /\ orbitAngleRef = 0

Spec == InitScene /\ [][Next]_vars


(* Gesture classifier alone: every hand of HandFrames.                     *)
GestureResults == {<<>>} \cup { <<h>> : h \in HandFrames }

GestureNext ==
  \E result \in GestureResults, finalDepth \in {2} :
    DetectorTick(result, finalDepth)

InitGesture == InitScene /\ lockFirst = TRUE

SpecGesture == InitGesture /\ [][GestureNext]_vars

(* Orbital motion of a grabbed orb: both grabbed-target codes, every depth *)
(* and every cursor ray, with mercury under the cursor.                    *)
MotionView ==
  [o \in Orbs |->
     IF o = "mercury" THEN [sd |-> 100, cd |-> 20, inDepth |-> TRUE]
     ELSE FarPlacement]

MotionResults == {<<>>} \cup { <<h>> : h \in { g \in SceneHands : ~checkFist(g) } }

MotionNext == Step(MotionResults, DepthInputs, {130}, {MotionView}, RayDists)

InitMotion == Init /\ ~isMultiplayer /\ orbitAngleRef = 0

SpecMotion == InitMotion /\ [][MotionNext]_vars

----------------------------------------------------------------------------
(* SoundOrb: orbit angle (lerpAngle and the angle update of                *)
(* updatePlanetPosition).  Angles are in 1/100 rad.                        *)

PI == 314

(* Target angles: Math.atan2 results of a grabbed orb, and a target that   *)
(* natural motion has carried past one turn.                               *)
AngleTargets == {-314, -300, 0, 314, 700}

(* angleLerpSpeed: 0.2 grabbed, 0.15 otherwise, in 1/100 *)
AngleLerpSpeeds == {15, 20}

RECURSIVE wrapDown(_)
(* while (diff > Math.PI) diff -= Math.PI * 2 *)
wrapDown(diff) == IF diff > PI THEN wrapDown(diff - 2 * PI) ELSE diff

RECURSIVE wrapUp(_)
(* while (diff < -Math.PI) diff += Math.PI * 2 *)
wrapUp(diff) == IF diff < -PI THEN wrapUp(diff + 2 * PI) ELSE diff

(* Variant: the difference is scaled without the wraparound *)
lerpAngleLinear(current, target, t) ==
  current + Trunc((target - current) * t, 100)

(* lerpAngle(current, target, t), t in 1/100 *)
lerpAngle(current, target, t) ==
  current + Trunc(wrapUp(wrapDown(target - current)) * t, 100)

(* orbitAngleRef.current = lerpAngle(orbitAngleRef.current,                *)
(*                          targetOrbitAngleRef.current, angleLerpSpeed)   *)
LerpAngleStep(target, t) ==
  /\ pc = 0
  /\ orbitAngleRef <= MaxAngle /\ orbitAngleRef >= -MaxAngle
  /\ targetOrbitAngleRef' = target
  /\ angleLerpSpeed' = t
  /\ orbitAngleRef' = lerpAngle(orbitAngleRef, target, t)
  /\ UNCHANGED <<now, pc, lockFirst, radiusMode, orbActive, orbPosition,
                 grabbedOrbs, renderedGrabbedOrbs, view, lastFramePinching,
                 closestOrbsRef>>
  /\ UNCHANGED handVars
  /\ UNCHANGED lockVars
  /\ UNCHANGED motionVars
  /\ UNCHANGED starVars
  /\ UNCHANGED storeVars
  /\ UNCHANGED playerVars

AngleNext ==
  \E target \in AngleTargets, t \in AngleLerpSpeeds : LerpAngleStep(target, t)

InitAngle == Init /\ radiusMode = "raycast" /\ ~isMultiplayer /\ lockFirst = TRUE

SpecAngle == InitAngle /\ [][AngleNext]_vars

----------------------------------------------------------------------------
(* The cursor of the classifier: hands whose four fingers are alike, every *)
(* depth estimate.                                                         *)
CursorHands ==
  { h \in HandFrames :
      h.index = h.middle /\ h.middle = h.ring /\ h.ring = h.pinky }

CursorResults == {<<>>} \cup { <<h>> : h \in CursorHands }

CursorNext ==
  \E result \in CursorResults, finalDepth \in DepthInputs :
    DetectorTick(result, finalDepth)

SpecCursor == InitGesture /\ [][CursorNext]_vars

----------------------------------------------------------------------------
(* Multiplayer: the backend sends the players and their hands, and App     *)
(* takes the first hand of the first player as the primary hand.  A hand   *)
(* of the message is [isPinching, isFist, z]; the second hand also has     *)
(* view, where the orbs project relative to its cursor (the primary        *)
(* hand's is the variable view).                                           *)

PrimaryHands ==
  { [isPinching |-> FALSE, isFist |-> FALSE, z |-> 2],
    [isPinching |-> TRUE, isFist |-> FALSE, z |-> 2] }

SecondHands ==
  { [isPinching |-> FALSE, isFist |-> FALSE, z |-> 2, view |-> MotionView],
    [isPinching |-> TRUE, isFist |-> FALSE, z |-> 2, view |-> MotionView],
    [isPinching |-> FALSE, isFist |-> FALSE, z |-> 2,
     view |-> [o \in Orbs |-> FarPlacement]] }

(* ws.onmessage with data.type 'players', and the players, primaryHand,    *)
(* isPinching, isFist and isTracking that App derives from it.  first and  *)
(* second are sequences of at most one hand: players[0].hands[0] and       *)
(* players[1].hands[0].                                                    *)
PlayersMessage(first, second) ==
  /\ pc = 0
  /\ isMultiplayer
  /\ Len(first) = 0 => Len(second) = 0
  /\ isTracking' = (Len(first) > 0)
  /\ isPinching' = IF Len(first) > 0 THEN first[1].isPinching ELSE FALSE
  /\ isFist' = IF Len(first) > 0 THEN first[1].isFist ELSE FALSE
  /\ handZ' = IF Len(first) > 0 THEN first[1].z ELSE handZ
  /\ hand2' = second
  /\ UNCHANGED <<landmarks, frameDepth, isMultiplayer>>
  /\ UNCHANGED <<now, pc, lockFirst, radiusMode, orbActive, orbPosition,
                 grabbedOrbs, renderedGrabbedOrbs, view, lastFramePinching,
                 closestOrbsRef>>
  /\ UNCHANGED lockVars
  /\ UNCHANGED motionVars
  /\ UNCHANGED angleVars
  /\ UNCHANGED starVars
  /\ UNCHANGED storeVars

TwoHandsNext ==
  \/ \E first \in {<<>>} \cup { <<h>> : h \in PrimaryHands },
        second \in {<<>>} \cup { <<h>> : h \in SecondHands } :
       PlayersMessage(first, second)
  \/ \E o \in Orbs : ToggleOrbActive(o)
  \/ \E step \in FrameSteps : StartFrame(step, MotionView)
  \/ LockFrame
  \/ \E o \in Orbs : SoundOrbFrame(o, 120)

InitTwoHands ==
  Init /\ radiusMode = "raycast" /\ isMultiplayer /\ orbitAngleRef = 0

SpecTwoHands == InitTwoHands /\ [][TwoHandsNext]_vars

----------------------------------------------------------------------------
(* ConstellationSystem (constellation view mode).  Positions of stars are  *)
(* not modelled: the star under the cursor is an input of the frame.       *)

(* The stars the cursor is put over: the triangle, and one star of the     *)
(* square.                                                                 *)
Stars == {"p0_s0", "p0_s1", "p0_s2", "p1_s0"}

patternIndex(star) == IF star = "p1_s0" THEN 1 ELSE 0

(* PATTERNS[p].positions.length, PATTERNS[p].pattern and .name *)
patternLength(p) == IF p = 0 THEN 3 ELSE 4
patternType(p) == IF p = 0 THEN "drums" ELSE "bass"
patternName(p) == IF p = 0 THEN "Triangulo" ELSE "Quadrado"

includes(seq, x) == \E i \in 1..Len(seq) : seq[i] = x

(* checkPatternComplete(starData.patternIndex), with the selectedStars of  *)
(* the render the frame callback was created in                            *)
checkPatternComplete(selected, star) ==
  Len(SelectSeq(selected, LAMBDA id : patternIndex(id) = patternIndex(star)))
    = patternLength(patternIndex(star))

(* Release of a pinch on an empty area *)
emptyPinchRelease(selected, duration) ==
  IF duration > 500 THEN <<>>
  ELSE IF duration < 300 /\ Len(selected) > 0
  THEN SubSeq(selected, 1, Len(selected) - 1)
  ELSE selected

(* Release of a pinch that started on a star: a quick tap toggles it *)
starPinchRelease(selected, star, duration) ==
  IF duration < 300
  THEN IF includes(selected, star)
       THEN SelectSeq(selected, LAMBDA id : id # star)
       ELSE Append(selected, star)
  ELSE selected

(* useFrame of ConstellationSystem; Date.now() is the time of the frame *)
ConstellationFrame(step, closestStar) ==
  /\ pc = 0
  /\ now + step <= MaxNow
  /\ now' = now + step
  /\ IF ~isTracking
     THEN /\ draggingStarRef' = Null
          /\ UNCHANGED <<selectedStars, lastPinchRef, pinchStartTimeRef,
                         completeTimers>>
     ELSE LET pinchStart == isPinching /\ ~lastPinchRef
              pinchEnd == ~isPinching /\ lastPinchRef
              duration == now' - pinchStartTimeRef
          IN /\ pinchStartTimeRef' =
                  IF pinchStart THEN now' ELSE pinchStartTimeRef
             /\ draggingStarRef' =
                  IF pinchStart THEN closestStar
                  ELSE IF pinchEnd THEN Null
                  ELSE draggingStarRef
             /\ selectedStars' =
                  IF ~pinchEnd THEN selectedStars
                  ELSE IF draggingStarRef # Null
                  THEN starPinchRelease(selectedStars, draggingStarRef, duration)
                  ELSE emptyPinchRelease(selectedStars, duration)
             /\ completeTimers' =
                  IF /\ pinchEnd /\ draggingStarRef # Null /\ duration < 300
                     /\ ~includes(selectedStars, draggingStarRef)
                     /\ checkPatternComplete(selectedStars, draggingStarRef)
                  THEN Append(completeTimers,
                              <<patternType(patternIndex(draggingStarRef)),
                                patternName(patternIndex(draggingStarRef))>>)
                  ELSE completeTimers
             /\ lastPinchRef' = isPinching
  /\ UNCHANGED <<pc, lockFirst, radiusMode, orbActive, orbPosition,
                 grabbedOrbs, renderedGrabbedOrbs, view, lastFramePinching,
                 closestOrbsRef>>
  /\ UNCHANGED handVars
  /\ UNCHANGED lockVars
  /\ UNCHANGED motionVars
  /\ UNCHANGED angleVars
  /\ UNCHANGED playerVars
  /\ UNCHANGED storeVars

ConstellationHands == { h \in SceneHands : ~checkFist(h) }

ConstellationNext ==
  \/ \E result \in {<<>>} \cup { <<h>> : h \in ConstellationHands } :
       DetectorTick(result, 2)
  \/ \E step \in FrameSteps, closestStar \in Stars \cup {Null} :
       ConstellationFrame(step, closestStar)

SpecConstellation == InitGesture /\ [][ConstellationNext]_vars

----------------------------------------------------------------------------
(* The candidate finder over more placements: orbs behind the camera, two  *)
(* orbs at one screen distance, two orbs of one score.                     *)
FinderPlacements ==
  Placements \cup { [sd |-> 100, cd |-> 10, inDepth |-> TRUE],
                    [sd |-> 300, cd |-> 10, inDepth |-> TRUE] }

FinderNext ==
  Step(MotionResults, {2}, {260}, [Orbs -> FinderPlacements], {120})

SpecFinder == InitGesture /\ [][FinderNext]_vars

----------------------------------------------------------------------------
(* Legacy orb scene: SoundOrb's grab/release effect on the app store.      *)
(* The effects of all orbs run after one render and read the props of that *)
(* render; whether an orb is within GRAB_THRESHOLD of the hand and whether *)
(* the released orb lies in the center zone are inputs.                    *)

StoreResult(state, grabbed, ready) ==
  [state |-> state, grabbed |-> grabbed, ready |-> ready]

(* The effect of one orb, applied to the store as the effects before it    *)
(* left it; renderedId is the grabbedOrbId of the render.                  *)
grabReleaseEffect(o, st, renderedId, inRange, inCenterZone) ==
  IF ~isTracking THEN st
  ELSE IF isPinching /\ o \in inRange /\ renderedId = Null /\ renderedId # o
  THEN StoreResult([st.state EXCEPT ![o] = "grabbed"], o, st.ready)
  ELSE IF renderedId = o /\ ~isPinching
  THEN IF inCenterZone
       THEN StoreResult([st.state EXCEPT ![o] = "loading"], Null,
                        Append(st.ready, o))
       ELSE StoreResult([st.state EXCEPT ![o] = "idle"], Null, st.ready)
  ELSE st

RECURSIVE effectsFrom(_, _, _, _, _)
effectsFrom(i, st, renderedId, inRange, inCenterZone) ==
  IF i > Len(StoreOrbOrder) THEN st
  ELSE effectsFrom(i + 1,
                   grabReleaseEffect(StoreOrbOrder[i], st, renderedId, inRange,
                                     inCenterZone),
                   renderedId, inRange, inCenterZone)

LegacyEffects(inRange, inCenterZone) ==
  /\ pc = 0
  /\ inCenterZone => Len(readyTimers) + Len(idleTimers) < MaxTimers
  /\ LET st == effectsFrom(1, StoreResult(storeOrbState, storeGrabbedOrbId,
                                          readyTimers),
                           storeGrabbedOrbId, inRange, inCenterZone)
     IN /\ storeOrbState' = st.state
        /\ storeGrabbedOrbId' = st.grabbed
        /\ readyTimers' = st.ready
  /\ UNCHANGED <<idleTimers, galaxyVars>>
  /\ UNCHANGED <<now, pc, lockFirst, radiusMode, orbActive, orbPosition,
                 grabbedOrbs, renderedGrabbedOrbs, view, lastFramePinching,
                 closestOrbsRef>>
  /\ UNCHANGED handVars
  /\ UNCHANGED lockVars
  /\ UNCHANGED motionVars
  /\ UNCHANGED angleVars
  /\ UNCHANGED starVars
  /\ UNCHANGED playerVars

(* The 3 s timer of an orb released in the center zone *)
ReadyTimeout ==
  /\ Len(readyTimers) > 0
  /\ storeOrbState' = [storeOrbState EXCEPT ![Head(readyTimers)] = "ready"]
  /\ readyTimers' = Tail(readyTimers)
  /\ idleTimers' = Append(idleTimers, Head(readyTimers))
  /\ UNCHANGED <<storeGrabbedOrbId, galaxyVars>>
  /\ UNCHANGED <<now, pc, lockFirst, radiusMode, orbActive, orbPosition,
                 grabbedOrbs, renderedGrabbedOrbs, view, lastFramePinching,
                 closestOrbsRef>>
  /\ UNCHANGED handVars
  /\ UNCHANGED lockVars
  /\ UNCHANGED motionVars
  /\ UNCHANGED angleVars
  /\ UNCHANGED starVars
  /\ UNCHANGED playerVars

(* The 2 s timer started when the orb became ready *)
IdleTimeout ==
  /\ Len(idleTimers) > 0
  /\ storeOrbState' = [storeOrbState EXCEPT ![Head(idleTimers)] = "idle"]
  /\ idleTimers' = Tail(idleTimers)
  /\ UNCHANGED <<storeGrabbedOrbId, readyTimers, galaxyVars>>
  /\ UNCHANGED <<now, pc, lockFirst, radiusMode, orbActive, orbPosition,
                 grabbedOrbs, renderedGrabbedOrbs, view, lastFramePinching,
                 closestOrbsRef>>
  /\ UNCHANGED handVars
  /\ UNCHANGED lockVars
  /\ UNCHANGED motionVars
  /\ UNCHANGED angleVars
  /\ UNCHANGED starVars
  /\ UNCHANGED playerVars

LegacyNext ==
  \/ \E result \in {<<>>} \cup { <<h>> : h \in ConstellationHands } :
       DetectorTick(result, 2)
  \/ \E inRange \in SUBSET StoreOrbs, inCenterZone \in BOOLEAN :
       LegacyEffects(inRange, inCenterZone)
  \/ ReadyTimeout
  \/ IdleTimeout

SpecLegacy == InitGesture /\ [][LegacyNext]_vars

----------------------------------------------------------------------------
(* App store: galaxy navigation.  Progress is in 1/100.                    *)

(* Progress values updateTransitionProgress is called with *)
Progresses == {25, 50, 100}

(* Variant: a transition may be started at any time *)
canStartTransitionAlways(targetGalaxyId) == TRUE

(* startGalaxyTransition goes on past its early return *)
canStartTransition(targetGalaxyId) ==
  ~(isTransitioning \/ currentGalaxy = targetGalaxyId)

startGalaxyTransition(targetGalaxyId) ==
  /\ IF canStartTransition(targetGalaxyId)
     THEN /\ isTransitioning' = TRUE
          /\ transitionTarget' = targetGalaxyId
          /\ transitionProgress' = 0
     ELSE UNCHANGED <<isTransitioning, transitionTarget, transitionProgress>>
  /\ UNCHANGED <<currentGalaxy, zoomLevel, legacyVars>>
  /\ UNCHANGED <<now, pc, lockFirst, radiusMode, orbActive, orbPosition,
                 grabbedOrbs, renderedGrabbedOrbs, view, lastFramePinching,
                 closestOrbsRef>>
  /\ UNCHANGED handVars
  /\ UNCHANGED lockVars
  /\ UNCHANGED motionVars
  /\ UNCHANGED angleVars
  /\ UNCHANGED starVars
  /\ UNCHANGED playerVars

updateTransitionProgress(progress) ==
  /\ IF ~isTransitioning
     THEN UNCHANGED galaxyVars
     ELSE IF progress >= 100
     THEN /\ currentGalaxy' = transitionTarget
          /\ isTransitioning' = FALSE
          /\ transitionTarget' = Null
          /\ transitionProgress' = 0
          /\ zoomLevel' = "solar_system"
     ELSE /\ transitionProgress' = progress
          /\ UNCHANGED <<currentGalaxy, isTransitioning, transitionTarget,
                         zoomLevel>>
  /\ UNCHANGED legacyVars
  /\ UNCHANGED <<now, pc, lockFirst, radiusMode, orbActive, orbPosition,
                 grabbedOrbs, renderedGrabbedOrbs, view, lastFramePinching,
                 closestOrbsRef>>
  /\ UNCHANGED handVars
  /\ UNCHANGED lockVars
  /\ UNCHANGED motionVars
  /\ UNCHANGED angleVars
  /\ UNCHANGED starVars
  /\ UNCHANGED playerVars

cancelTransition ==
  /\ isTransitioning' = FALSE
  /\ transitionTarget' = Null
  /\ transitionProgress' = 0
  /\ UNCHANGED <<currentGalaxy, zoomLevel, legacyVars>>
  /\ UNCHANGED <<now, pc, lockFirst, radiusMode, orbActive, orbPosition,
                 grabbedOrbs, renderedGrabbedOrbs, view, lastFramePinching,
                 closestOrbsRef>>
  /\ UNCHANGED handVars
  /\ UNCHANGED lockVars
  /\ UNCHANGED motionVars
  /\ UNCHANGED angleVars
  /\ UNCHANGED starVars
  /\ UNCHANGED playerVars

setZoomLevel(level) ==
  /\ zoomLevel' = level
  /\ UNCHANGED <<currentGalaxy, isTransitioning, transitionTarget,
                 transitionProgress, legacyVars>>
  /\ UNCHANGED <<now, pc, lockFirst, radiusMode, orbActive, orbPosition,
                 grabbedOrbs, renderedGrabbedOrbs, view, lastFramePinching,
                 closestOrbsRef>>
  /\ UNCHANGED handVars
  /\ UNCHANGED lockVars
  /\ UNCHANGED motionVars
  /\ UNCHANGED angleVars
  /\ UNCHANGED starVars
  /\ UNCHANGED playerVars

GalaxyNext ==
  \/ \E targetGalaxyId \in Galaxies : startGalaxyTransition(targetGalaxyId)
  \/ \E progress \in Progresses : updateTransitionProgress(progress)
  \/ cancelTransition
  \/ \E level \in ZoomLevels : setZoomLevel(level)

SpecGalaxy == InitGesture /\ [][GalaxyNext]_vars

----------------------------------------------------------------------------
(* Steps of a frame, for the properties below *)

LockStep == pc > 0 /\ CallbackOrder[pc] = "lock" /\ pc' # pc
OrbStep(o) == pc > 0 /\ CallbackOrder[pc] = o /\ pc' # pc
FrameEnd == pc # 0 /\ pc' = 0

(* What the candidate finder returns in the current frame *)
currentClosestNow ==
  getClosestOrbForHand(view, ObjectValues(renderedGrabbedOrbs))

----------------------------------------------------------------------------
(* C1: if hand tracking is lost while an orb is grabbed, the frame that    *)
(* sees the loss releases the grab and resets the lock: at the end of      *)
(* every frame run without tracking no orb is grabbed and no orb is        *)
(* locked.                                                                 *)
C1_TrackingLossReleases ==
  [][(FrameEnd /\ ~isTracking)
       => (grabbedOrbs' = <<>> /\ lockedOrbRef' = Null)]_vars

(* C2: no orb id is held under two different player keys of grabbedOrbs.   *)
C2_NoSharedGrab ==
  \A i, j \in 1..Len(grabbedOrbs) :
    i # j => grabbedOrbs[i][2] # grabbedOrbs[j][2]

C2_Witness == Len(grabbedOrbs) > 0 /\ pc = 0

(* C3: with no lock held and the finder returning the candidate again, the *)
(* lock update keeps the hand in CANDIDATE while the time since the        *)
(* candidate was first seen is below LOCK_TIME and locks that orb on the   *)
(* first frame at or past LOCK_TIME.                                       *)
C3_DwellThenLock ==
  [][(/\ LockStep
      /\ grabbedOrbId = Null /\ isTracking /\ cameraMode # "camera"
      /\ lockedOrbRef = Null /\ lockCandidateRef # Null
      /\ currentClosestNow = lockCandidateRef)
       => IF now - lockStartTimeRef < LOCK_TIME
          THEN lockedOrbRef' = Null /\ lockCandidateRef' = lockCandidateRef
          ELSE lockedOrbRef' = lockCandidateRef]_vars

C3_Witness ==
  /\ lockedOrbRef # Null /\ grabbedOrbs = <<>> /\ renderedGrabbedOrbs = <<>>
  /\ now - lockStartTimeRef = LOCK_TIME

(* C4: for every active orb in every frame, the selection threshold of the *)
(* candidate finder is below the lock release threshold.                   *)
C4_AcquisitionBelowRelease ==
  \A o \in Orbs :
    (pc > 0 /\ orbActive[o])
      => selectionThreshold(planetSize(o), view[o].cd) < UNLOCK_THRESHOLD

(* C5 as stated: a lock is lost only when the cursor is farther from the   *)
(* locked orb than the release threshold, the orb is inactive, or tracking *)
(* is lost.                                                                *)
C5_Original ==
  [][(lockedOrbRef # Null /\ lockedOrbRef' # lockedOrbRef)
       => \/ view[lockedOrbRef].sd * 1000 > UNLOCK_THRESHOLD
          \/ ~orbActive[lockedOrbRef]
          \/ ~isTracking]_vars

(* C5 amended: a lock is lost only when the cursor is farther from the     *)
(* locked orb than the release threshold, the orb is inactive, tracking is *)
(* lost, or the hand makes a fist while nothing is grabbed (camera mode).  *)
C5_StickyLock ==
  [][(lockedOrbRef # Null /\ lockedOrbRef' # lockedOrbRef)
       => \/ view[lockedOrbRef].sd * 1000 > UNLOCK_THRESHOLD
          \/ ~orbActive[lockedOrbRef]
          \/ ~isTracking
          \/ cameraMode = "camera"]_vars

C5_Witness ==
  /\ lockFirst /\ pc = 2
  /\ lockedOrbRef # Null /\ renderedGrabbedOrbs = <<>>
  /\ isTracking /\ ~isFist /\ orbActive[lockedOrbRef]
  /\ view[lockedOrbRef].sd = 300

(* C6: when a tracked hand stops pinching while it holds an active orb,    *)
(* the orb's frame clears the grab and stores the orb's current            *)
(* interpolated position, and at the end of that frame the hand is locked  *)
(* on the same orb.                                                        *)
C6_ReleaseKeepsLock ==
  [][\A o \in Orbs :
       /\ (OrbStep(o) /\ isGrabbed(o) /\ isTracking /\ orbActive[o]
             /\ ~isPinching)
            => /\ Lookup(grabbedOrbs', "player_0") = Null
               /\ orbPosition'[o] = currentPosition[o]
       /\ (FrameEnd /\ isGrabbed(o) /\ isTracking /\ orbActive[o]
             /\ ~isPinching)
            => /\ grabbedOrbs' = <<>>
               /\ lockedOrbRef' = o]_vars

C6_Witness ==
  \E o \in Orbs :
    /\ pc = 0 /\ grabbedOrbs = <<>> /\ lockedOrbRef = o
    /\ orbPosition[o] # initialOrbitRadius(o)

(* C7: when the orb a hand has locked or grabbed is inactive, the frame    *)
(* resets the hand: at the end of every frame no inactive orb is locked    *)
(* or grabbed.                                                             *)
C7_InactiveOrbReleased ==
  [][FrameEnd
       => \A o \in Orbs :
            ~orbActive[o]
              => lockedOrbRef' # o /\ o \notin ObjectValues(grabbedOrbs')]_vars

(* C8: the classifier never reports fist and pinch together, and a hand    *)
(* that meets both the fist condition and the pinch-distance condition is  *)
(* reported as fist and not as pinching.                                   *)
C8_FistPrecedence ==
  /\ ~(isFist /\ isPinching)
  /\ (Len(landmarks) > 0 /\ checkFist(landmarks[1]) /\ pinchClose(landmarks[1]))
       => (isFist /\ ~isPinching)

C8_Witness ==
  /\ Len(landmarks) > 0
  /\ checkFist(landmarks[1]) /\ pinchClose(landmarks[1])
  /\ isFist

(* C9: the target orbit radius of every orb lies in                        *)
(* [MIN_ORBIT_RADIUS, MAX_ORBIT_RADIUS].                                   *)
C9_TargetRadiusInRange ==
  \A o \in Orbs :
    /\ targetOrbitRadius[o] >= MIN_ORBIT_RADIUS
    /\ targetOrbitRadius[o] <= MAX_ORBIT_RADIUS

C9_Witness ==
  \E o \in Orbs :
    /\ isGrabbed(o)
    /\ targetOrbitRadius[o] = MAX_ORBIT_RADIUS
    /\ radiusMode = "raycast"

Abs(a) == IF a >= 0 THEN a ELSE -a

(* C11 as stated: every angle update scales the difference target -        *)
(* current normalized into (-pi, pi], so the angle changes by at most      *)
(* pi * t, and from 3.1 rad toward -3.0 rad it steps up through pi by      *)
(* less than 0.3 rad.                                                      *)
C11_Original ==
  [][(<<orbitAngleRef, targetOrbitAngleRef, angleLerpSpeed>>' #
        <<orbitAngleRef, targetOrbitAngleRef, angleLerpSpeed>>)
       => /\ \E k \in -5..5 :
               LET d == targetOrbitAngleRef' - orbitAngleRef + k * 2 * PI
               IN /\ d > -PI /\ d <= PI
                  /\ orbitAngleRef' = orbitAngleRef + Trunc(d * angleLerpSpeed', 100)
          /\ Abs(orbitAngleRef' - orbitAngleRef) * 100 <= PI * angleLerpSpeed'
          /\ (orbitAngleRef = 310 /\ targetOrbitAngleRef' = -300)
               => (orbitAngleRef' > orbitAngleRef
                   /\ orbitAngleRef' - orbitAngleRef < 30)]_vars

(* C11 amended: every angle update scales the difference target - current  *)
(* normalized into [-pi, pi] (a difference of exactly -pi is left as it    *)
(* is), so the angle changes by at most pi * t, and from 3.1 rad toward    *)
(* -3.0 rad it steps up through pi by less than 0.3 rad.                   *)
C11_ShortestArc ==
  [][(<<orbitAngleRef, targetOrbitAngleRef, angleLerpSpeed>>' #
        <<orbitAngleRef, targetOrbitAngleRef, angleLerpSpeed>>)
       => /\ \E k \in -5..5 :
               LET d == targetOrbitAngleRef' - orbitAngleRef + k * 2 * PI
               IN /\ d >= -PI /\ d <= PI
                  /\ orbitAngleRef' = orbitAngleRef + Trunc(d * angleLerpSpeed', 100)
          /\ Abs(orbitAngleRef' - orbitAngleRef) * 100 <= PI * angleLerpSpeed'
          /\ (orbitAngleRef = 310 /\ targetOrbitAngleRef' = -300)
               => (orbitAngleRef' > orbitAngleRef
                   /\ orbitAngleRef' - orbitAngleRef < 30)]_vars

C11_Witness == targetOrbitAngleRef = -300 /\ orbitAngleRef > PI

(* C12: a detector tick that brings the same hand frame as the tick before *)
(* leaves the cursor depth and the flags isPinching, isFist and isTracking *)
(* as the first tick set them.                                             *)
C12_StaleFrameSameOutput ==
  [][(/\ pc = 0 /\ pc' = 0
      /\ Len(landmarks) > 0
      /\ landmarks' = landmarks /\ frameDepth' = frameDepth)
       => /\ handZ' = handZ
          /\ isPinching' = isPinching
          /\ isFist' = isFist
          /\ isTracking' = isTracking]_vars

(* C14: the detector tick that loses the hand clears isTracking,           *)
(* isPinching and isFist and leaves the cursor depth that the scene is     *)
(* given (handPosition.z) at its last value.                               *)
C14_CursorFrozenOnLoss ==
  [][(isTracking /\ ~isTracking')
       => /\ ~isPinching' /\ ~isFist'
          /\ handPositionZ' = handPositionZ]_vars

(* What the candidate finder returns for the second hand's cursor *)
secondHandClosest ==
  getClosestOrbForHand(hand2[1].view, ObjectValues(renderedGrabbedOrbs))

(* C13: at the end of every lock update with a second tracked hand, an orb *)
(* grabbed by the first hand is neither the second hand's hover target nor *)
(* grabbed by the second hand, and an orb that nobody holds and that the   *)
(* candidate finder returns for the second hand's cursor is the second     *)
(* hand's hover target, so that the second hand can lock and grab it.      *)
C13_SecondHandSelects ==
  [][(LockStep /\ Len(hand2) = 1)
       => /\ \A o \in Orbs :
               Lookup(renderedGrabbedOrbs, "player_0") = o
                 => /\ Lookup(closestOrbsRef', "player_1_0") # o
                    /\ Lookup(grabbedOrbs', "player_1") # o
          /\ secondHandClosest # Null
               => Lookup(closestOrbsRef', "player_1_0") = secondHandClosest]_vars

(* The frame of ConstellationSystem in which a pinch ends *)
PinchEndStep == now' > now /\ isTracking /\ lastPinchRef /\ ~isPinching

(* C15: a pinch on empty space that is released clears all connections     *)
(* when it lasted more than 500 ms and otherwise removes the last          *)
(* connected star.                                                         *)
C15_EmptyPinch ==
  [][(PinchEndStep /\ draggingStarRef = Null)
       => IF now' - pinchStartTimeRef > 500
          THEN selectedStars' = <<>>
          ELSE Len(selectedStars) > 0
                 => selectedStars' =
                      SubSeq(selectedStars, 1, Len(selectedStars) - 1)]_vars

(* C16: the frame in which a quick pinch connects the last missing star of *)
(* a pattern schedules the call of onConstellationComplete with the        *)
(* pattern's type and name.                                                *)
C16_CompletionScheduled ==
  [][\A star \in Stars :
       (/\ PinchEndStep
        /\ selectedStars' = Append(selectedStars, star)
        /\ Len(SelectSeq(selectedStars',
                         LAMBDA id : patternIndex(id) = patternIndex(star)))
             = patternLength(patternIndex(star)))
         => completeTimers' =
              Append(completeTimers,
                     <<patternType(patternIndex(star)),
                       patternName(patternIndex(star))>>)]_vars

(* Orb o is put into grabbedOrbs by the step *)
BecomesGrabbed(o) ==
  o \notin ObjectValues(grabbedOrbs) /\ o \in ObjectValues(grabbedOrbs')

(* C17: an orb becomes grabbed only in a frame in which the hand is        *)
(* tracked and pinching, the scene is not in camera mode, the orb is       *)
(* active and the orb is the locked id; a mere candidate is never grabbed. *)
C17_GrabNeedsLock ==
  [][\A o \in Orbs :
       BecomesGrabbed(o)
         => /\ isTracking /\ isPinching /\ cameraMode # "camera"
            /\ orbActive[o]
            /\ lockedOrbRef = o
            /\ lockCandidateRef # o]_vars

C17_Witness ==
  \E o \in Orbs :
    o \in ObjectValues(grabbedOrbs) /\ lockedOrbRef = o /\ isPinching

(* C18: an orb becomes grabbed only in a frame that sees the pinch change  *)
(* from false to true: the frame before it did not see a pinch.            *)
C18_GrabOnPinchEdge ==
  [][\A o \in Orbs : BecomesGrabbed(o) => ~lastFramePinching]_vars

(* C19: a candidate left by a lock update is the finder's result of that   *)
(* frame, and its dwell timer either restarts at the frame's time or       *)
(* continues for the same id; no candidate survives a frame without a      *)
(* finder result; a lock is acquired by dwell only for the candidate that  *)
(* is again the finder's result, LOCK_TIME or more after its timer began.  *)
C19_DwellRestarts ==
  [][LockStep
       => /\ lockCandidateRef' # Null
               => /\ isTracking /\ cameraMode # "camera" /\ grabbedOrbId = Null
                  /\ lockCandidateRef' = currentClosestNow
                  /\ \/ lockStartTimeRef' = now
                     \/ /\ lockCandidateRef' = lockCandidateRef
                        /\ lockStartTimeRef' = lockStartTimeRef
          /\ (lockedOrbRef = Null /\ lockedOrbRef' # Null /\ grabbedOrbId = Null)
               => /\ lockedOrbRef' = lockCandidateRef
                  /\ lockedOrbRef' = currentClosestNow
                  /\ now - lockStartTimeRef >= LOCK_TIME]_vars

C19_Witness ==
  /\ lockedOrbRef # Null /\ grabbedOrbs = <<>> /\ renderedGrabbedOrbs = <<>>
  /\ lockStartTimeRef > 130 /\ now - lockStartTimeRef >= LOCK_TIME

(* C20: after every lock update closestOrbRef is the locked id when a lock *)
(* is held, and the candidate id (or null) otherwise.                      *)
C20_ClosestIsEffectiveTarget ==
  [][LockStep
       => closestOrbRef' = IF lockedOrbRef' # Null THEN lockedOrbRef'
                           ELSE lockCandidateRef']_vars

(* The orb passes every test of the finder in the current frame *)
PassesFinderTests(o) ==
  /\ orbActive[o]
  /\ o \notin ObjectValues(renderedGrabbedOrbs)
  /\ view[o].inDepth
  /\ view[o].sd * 1000
       < Min(350, 200 + planetSize(o)) * Max(500, 20000 \div view[o].cd)

(* C21: the finder returns null or an orb that is active, not excluded,    *)
(* inside the depth range and strictly below its selection threshold; it   *)
(* returns null exactly when there is no such orb.                         *)
C21_FinderEligible ==
  /\ currentClosestNow # Null => PassesFinderTests(currentClosestNow)
  /\ currentClosestNow = Null <=> ~\E o \in Orbs : PassesFinderTests(o)

C21_Witness ==
  /\ pc > 0
  /\ currentClosestNow = "jupiter"
  /\ ~view["mercury"].inDepth /\ view["mercury"].sd = 100
  /\ orbActive["mercury"]

Fingers == {"index", "middle", "ring", "pinky"}

(* Landmark indices of a finger's tip and middle joint, and the largest    *)
(* distance of its tip from the palm reference in a fist                   *)
tipIndex(f) ==
  CASE f = "index" -> 8 [] f = "middle" -> 12 [] f = "ring" -> 16
    [] f = "pinky" -> 20
pipIndex(f) ==
  CASE f = "index" -> 6 [] f = "middle" -> 10 [] f = "ring" -> 14
    [] f = "pinky" -> 18
maxPalmDist(f) ==
  CASE f = "index" -> 15 [] f = "middle" -> 12 [] f = "ring" -> 15
    [] f = "pinky" -> 18

fingerCurled(hand, f) ==
  landmark(hand, tipIndex(f)).y > landmark(hand, pipIndex(f)).y - 2

fingerNearPalm(hand, f) ==
  distance3DSq(landmark(hand, tipIndex(f)), landmark(hand, 9))
    < maxPalmDist(f) * maxPalmDist(f)

(* C23 as stated: a hand is a fist exactly when at least 3 of the 4        *)
(* non-thumb fingers are each both curled and within their distance of the *)
(* palm reference.                                                         *)
C23_Original ==
  Len(landmarks) > 0 =>
    (isFist <=>
       Cardinality({ f \in Fingers : /\ fingerCurled(landmarks[1], f)
                                     /\ fingerNearPalm(landmarks[1], f) }) >= 3)

(* C23: a hand is a fist exactly when at least 3 of the 4 non-thumb        *)
(* fingers are curled and, in addition, either all four finger tips are    *)
(* within their distances of the palm reference or the index and pinky     *)
(* tips are less than 0.15 apart.                                          *)
C23_FistRule ==
  Len(landmarks) > 0 =>
    (isFist <=>
       /\ Cardinality({ f \in Fingers : fingerCurled(landmarks[1], f) }) >= 3
       /\ \/ \A f \in Fingers : fingerNearPalm(landmarks[1], f)
          \/ distance3DSq(landmark(landmarks[1], 8), landmark(landmarks[1], 20))
               < 15 * 15)

C23_Witness ==
  /\ Len(landmarks) > 0
  /\ isFist
  /\ \E f \in Fingers : ~fingerCurled(landmarks[1], f)
  /\ \E f \in Fingers : ~fingerNearPalm(landmarks[1], f)

(* C24: a lock update run while an orb is grabbed sets closestOrbRef and   *)
(* lockedOrbRef to the grabbed id and the candidate to null, wherever the  *)
(* cursor projects.                                                        *)
C24_GrabbedIsAuthoritative ==
  [][(LockStep /\ Len(renderedGrabbedOrbs) > 0)
       => /\ closestOrbRef' = renderedGrabbedOrbs[1][2]
          /\ lockedOrbRef' = renderedGrabbedOrbs[1][2]
          /\ lockCandidateRef' = Null]_vars

C24_Witness ==
  /\ lockFirst /\ pc > 1
  /\ Len(renderedGrabbedOrbs) > 0
  /\ closestOrbRef = renderedGrabbedOrbs[1][2]
  /\ view[renderedGrabbedOrbs[1][2]].sd = 600
  /\ \E o \in Orbs : o # closestOrbRef /\ view[o].sd = 100

(* C25: the frame of an orb that is inactive or already grabbed, run while *)
(* the hand pinches, changes neither grabbedOrbs nor a stored position.    *)
C25_GrabAttemptIgnored ==
  [][\A o \in Orbs :
       (/\ OrbStep(o)
        /\ isTracking /\ isPinching
        /\ ~orbActive[o] \/ o \in ObjectValues(renderedGrabbedOrbs))
         => grabbedOrbs' = grabbedOrbs /\ orbPosition' = orbPosition]_vars

C25_Witness ==
  /\ ~lockFirst /\ pc = 2
  /\ ~orbActive["mercury"] /\ lockedOrbRef = "mercury"
  /\ isTracking /\ isPinching
  /\ grabbedOrbs = <<>>

(* C26: while the tracked hand shows a fist and the player holds no grab,  *)
(* a lock update leaves candidate, lock and closestOrbRef null, and no orb *)
(* becomes grabbed.                                                        *)
C26_CameraModeClearsLock ==
  [][(isTracking /\ isFist /\ Lookup(renderedGrabbedOrbs, "player_0") = Null)
       => /\ LockStep
               => /\ lockCandidateRef' = Null
                  /\ lockedOrbRef' = Null
                  /\ closestOrbRef' = Null
          /\ \A o \in Orbs : ~BecomesGrabbed(o)]_vars

C26_Witness ==
  /\ isTracking /\ isFist /\ renderedGrabbedOrbs = <<>>
  /\ lockFirst /\ pc > 1
  /\ view["mercury"].sd = 100
  /\ lockedOrbRef = Null /\ lockStartTimeRef > 0

(* C27: lockCandidateRef and lockedOrbRef are never both set.              *)
C27_CandidateOrLock ==
  ~(lockCandidateRef # Null /\ lockedOrbRef # Null)

C27_Witness ==
  /\ lockedOrbRef # Null /\ lockCandidateRef = Null
  /\ grabbedOrbs = <<>> /\ renderedGrabbedOrbs = <<>>
  /\ pc = 0 /\ ~isPinching

(* C28: the current orbit radius of every orb stays within                 *)
(* [MIN_ORBIT_RADIUS, MAX_ORBIT_RADIUS], hence positive, and every frame   *)
(* of an orb leaves it between its old value and the frame's target.       *)
C28_RadiusInRange ==
  /\ \A o \in Orbs :
       /\ currentOrbitRadius[o] >= MIN_ORBIT_RADIUS
       /\ currentOrbitRadius[o] <= MAX_ORBIT_RADIUS
       /\ currentOrbitRadius[o] > 0
  /\ \A o \in Orbs :
       pc > 0 /\ CallbackOrder[pc] = o =>
         \A targetDist \in RayDists :
           LET target == newTargetRadius(o, targetDist)
               radius == newOrbitRadius(o, target)
           IN /\ radius >= Min(currentOrbitRadius[o], target)
              /\ radius <= Max(currentOrbitRadius[o], target)

C28_Witness ==
  \E o \in Orbs :
    /\ ~isGrabbed(o) /\ grabbedOrbs = <<>>
    /\ targetOrbitRadius[o] = MAX_ORBIT_RADIUS
    /\ currentOrbitRadius[o] > initialOrbitRadius(o) + 20

(* C29: in the legacy orb scene an orb's state is 'grabbed' exactly while  *)
(* the store's grabbedOrbId is its id (so at most one orb is 'grabbed').   *)
C29_GrabbedStateMatchesStore ==
  \A o \in StoreOrbs : storeOrbState[o] = "grabbed" <=> storeGrabbedOrbId = o

(* C30: isTransitioning holds exactly when transitionTarget is set, and    *)
(* the target is never the current galaxy; a running transition keeps its  *)
(* target; currentGalaxy changes only in a step that ends a running        *)
(* transition, where it becomes the target, isTransitioning becomes false, *)
(* the target null and zoomLevel 'solar_system'.                           *)
C30_GalaxyTransition ==
  /\ [](/\ isTransitioning <=> transitionTarget # Null
        /\ transitionTarget # currentGalaxy)
  /\ [][/\ (isTransitioning /\ isTransitioning')
             => transitionTarget' = transitionTarget
        /\ currentGalaxy' # currentGalaxy
             => /\ isTransitioning /\ currentGalaxy' = transitionTarget
                /\ ~isTransitioning' /\ transitionTarget' = Null
                /\ zoomLevel' = "solar_system"]_vars

C30_Witness ==
  /\ currentGalaxy = "andromeda"
  /\ isTransitioning /\ transitionTarget = "milky_way"
  /\ transitionProgress = 50
  /\ zoomLevel = "universe_view"

====
